---- MODULE Spec2Model ----
(***************************************************************************)
(* Model of the conversational parameter-collection engine                 *)
(* (workflow_system/core/engine.py, class EnhancedParameterWorkflow).      *)
(*                                                                         *)
(* The engine is a two-step LangGraph graph  START -> supervisor -> phase  *)
(* -> END  with a MemorySaver checkpointer keyed by thread id.  A graph    *)
(* node receives a fresh top-level dict built from the channel values, so  *)
(* an assignment  state["k"] = v  inside a node is lost unless the node    *)
(* returns it, while a mutation of the nested  state["params"]  dict is a  *)
(* mutation of the channel value itself and is seen by the next node.      *)
(* The  messages  channel has the add_messages reducer (append); every     *)
(* other channel keeps the last value written.                             *)
(***************************************************************************)
EXTENDS Integers, Sequences, FiniteSets, TLC

(***************************************************************************)
(* Bounds of the model.                                                    *)
(***************************************************************************)
\* a session whose message log has MaxLog entries takes no further call
MaxLog == 3

Threads == {"t1"}

(***************************************************************************)
(* Configuration (config/settings.py, WorkflowConfig).  max_iterations is  *)
(* a constructor parameter of the engine (default 5, the tests use 3); the *)
(* model runs the engine configured with a small value.                    *)
(***************************************************************************)
max_iterations == 1

parameter_extraction_retries == 3

(***************************************************************************)
(* Phase registry (workflows/registry.py): ordered, first phase first.     *)
(* Each phase is modelled with a representative part of its schema.        *)
(***************************************************************************)
FIN == "financial_input_validation"

REP == "generate_report"

phase_names == <<FIN, REP>>

PhaseSet == {phase_names[i] : i \in 1..Len(phase_names)}

\* variant: the computed field is listed among the user input fields
get_user_input_fields_with_computed(p) ==
  IF p = FIN THEN {"product_type", "term_years"} ELSE {"user_name", "report_type"}

\* get_user_input_fields() of the phase's parameter model, or every field
\* that is not flagged exclude=True when the model has no such method.
get_user_input_fields(p) ==
  IF p = FIN THEN {"product_type"} ELSE {"user_name", "report_type"}

\* fields flagged exclude=True / listed by get_computed_fields()
get_computed_fields(p) ==
  IF p = FIN THEN {"term_years"} ELSE {}

model_fields(p) == get_user_input_fields(p) \cup get_computed_fields(p)

REQUEST_SENT == "__parameter_request_sent__"

VALIDATION_FAILED == "__validation_failed__"

LAST_ERROR == "__last_validation_error__"

ReservedKeys == {REQUEST_SENT, VALIDATION_FAILED, LAST_ERROR}

\* k.startswith("__")
startswith_dunder(k) == k \in ReservedKeys

AllKeys == model_fields(FIN) \cup model_fields(REP) \cup ReservedKeys \cup {"note"}

(***************************************************************************)
(* Values.  ABSENT marks a key that is not in a dict; NONE is Python None; *)
(* "#42" stands for the integer 42 (a value that is not a str).            *)
(***************************************************************************)
ABSENT == "<absent>"

NONE == "<None>"

isinstance_str(v) == v \notin {NONE, "#42"}

\* str(v)
str(v) == IF v = "#42" THEN "42" ELSE IF v = NONE THEN "None" ELSE v

\* v.lower() on the values of the model
lower(v) ==
  CASE v = "None" -> "none"
    [] v = "NULL" -> "null"
    [] v = " None " -> " none "
    [] v = "Not Specified" -> "not specified"
    [] OTHER -> v

\* v.strip() on the values of the model
strip(v) ==
  CASE v = "   " -> ""
    [] v = " None " -> "None"
    [] v = " none " -> "none"
    [] OTHER -> v

EmptyMap == [k \in AllKeys |-> ABSENT]

Keys(m) == {k \in AllKeys : m[k] # ABSENT}

\* dict.update
update(m, n) == [k \in AllKeys |-> IF n[k] # ABSENT THEN n[k] ELSE m[k]]

\* variant: the internal flags are left in the dict
keep_internal_flags(m) == m

\* {k: v for k, v in m.items() if not k.startswith("__")}
strip_internal_flags(m) ==
  [k \in AllKeys |-> IF startswith_dunder(k) THEN ABSENT ELSE m[k]]

Map1(k1, v1) == [k \in AllKeys |-> IF k = k1 THEN v1 ELSE ABSENT]

Map2(k1, v1, k2, v2) ==
  [k \in AllKeys |-> IF k = k1 THEN v1 ELSE IF k = k2 THEN v2 ELSE ABSENT]

(***************************************************************************)
(* Capabilities.  The schema-constrained capability returns an instance of *)
(* the phase's parameter model, so model_dump() has exactly the fields     *)
(* that are not excluded, each a value the model accepts or None.  The     *)
(* free-text capability returns text that json.loads decodes to anything.  *)
(***************************************************************************)
StructuredOutputs(p) ==
  IF p = FIN
  THEN {Map1("product_type", NONE), Map1("product_type", "isa")}
  ELSE {Map2("user_name", NONE, "report_type", NONE),
        Map2("user_name", "None", "report_type", "   "),
        Map2("user_name", "Alice", "report_type", NONE),
        Map2("user_name", NONE, "report_type", "monthly"),
        Map2("user_name", "Alice", "report_type", "monthly"),
        Map2("user_name", " None ", "report_type", "Not Specified")}

\* objects the free-text fallback can decode: a value that is no str, and
\* an invalid value with keys outside the schema, reserved and computed
FallbackObjects ==
  { Map2("user_name", "#42", "report_type", "monthly"),
    [k \in AllKeys |->
       CASE k = "product_type" -> "crypto"
         [] k = "note" -> "NULL"
         [] k = REQUEST_SENT -> "True"
         [] k = "term_years" -> "#42"
         [] OTHER -> ABSENT] }

\* outcome of one call of the free-text capability: it raises, its text has
\* no decodable JSON object, or json.loads yields the object obj
FallbackOutcomes ==
  {[kind |-> "error", obj |-> EmptyMap], [kind |-> "undecodable", obj |-> EmptyMap]}
    \cup {[kind |-> "object", obj |-> o] : o \in FallbackObjects}

\* lines 197-202 and 124-129: string "None"/"null"/"" becomes None
clean_value(v) ==
  IF isinstance_str(v) /\ lower(v) \in {"none", "null", ""} THEN NONE ELSE v

\* lines 205-209: the filter of the structured strategy
structured_keep(v) ==
  /\ v # NONE
  /\ v # ""
  /\ v # "null"
  /\ v # "None"
  /\ lower(str(v)) # "none"
  /\ strip(str(v)) # ""

\* lines 132-135: the filter of the fallback strategy
fallback_keep(v) ==
  /\ v # NONE
  /\ v # ""
  /\ strip(str(v)) # ""

structured_valid_params(raw) ==
  [k \in AllKeys |->
     IF raw[k] = ABSENT THEN ABSENT
     ELSE IF structured_keep(clean_value(raw[k])) THEN clean_value(raw[k]) ELSE ABSENT]

fallback_valid_params(raw) ==
  [k \in AllKeys |->
     IF raw[k] = ABSENT THEN ABSENT
     ELSE IF fallback_keep(clean_value(raw[k])) THEN clean_value(raw[k]) ELSE ABSENT]

\* _extract_parameters_with_fallback: every failure is caught and gives {}
extract_parameters_with_fallback(o) ==
  IF o.kind = "object" THEN fallback_valid_params(o.obj) ELSE EmptyMap

(***************************************************************************)
(* Missing fields, validation, prompt.                                     *)
(***************************************************************************)
value_is_missing(v) ==
  \/ v = ABSENT
  \/ v = NONE
  \/ v = ""
  \/ lower(str(v)) \in {"none", "not specified", "null"}
  \/ strip(str(v)) = ""

\* variant: every field of the model is checked, the computed ones too
get_missing_parameters_all_fields(current_params, p) ==
  {f \in model_fields(p) : value_is_missing(current_params[f])}

\* lines 252-275
get_missing_parameters(current_params, p) ==
  {f \in get_user_input_fields(p) : value_is_missing(current_params[f])}

\* pydantic validation of one field of the phase's parameter model
field_validates(p, k, v) ==
  CASE v \in {ABSENT, NONE} -> TRUE
    [] k = "product_type" -> isinstance_str(v) /\ strip(lower(v)) \in {"isa"}
    [] k \in {"user_name", "report_type"} -> isinstance_str(v)
    [] OTHER -> TRUE

validation_succeeds(params, p) ==
  \A k \in model_fields(p) : field_validates(p, k, params[k])

\* validated.model_dump(): the fields of the model that are not excluded
validate_parameters(params, p) ==
  [k \in AllKeys |->
     IF k \in get_user_input_fields(p)
     THEN (IF params[k] = ABSENT THEN NONE ELSE params[k])
     ELSE ABSENT]

\* variant: the prompt lists every user input field of the phase
parameter_request_fields_whole_schema(missing_params, p) ==
  get_user_input_fields(p)

\* the fields named by _create_parameter_request_message
parameter_request_fields(missing_params, p) ==
  {f \in missing_params : f \notin get_computed_fields(p) /\ f \in model_fields(p)}

(***************************************************************************)
(* Session state (models/state.py, WorkflowState) and messages.            *)
(* params is the pair (pkeys, params): pkeys holds the phase names that    *)
(* are keys of the params dict.  results[p] = NoResult when p is no key.   *)
(***************************************************************************)
PENDING == "pending"

COLLECTING_PARAMS == "collecting_params"

EXECUTING == "executing"

COMPLETED == "completed"

FAILED == "failed"

NoResult == [status |-> ABSENT, args |-> EmptyMap]

NoResults == [p \in PhaseSet |-> NoResult]

NoDecision == [next_phase |-> NONE, intent |-> NONE, confidence |-> 0]

HumanMessage(text) == [role |-> "human", content |-> text, fields |-> {}]

AIMessage(text, fs) == [role |-> "ai", content |-> text, fields |-> fs]

EMPTY_MESSAGE_ERROR == "Error: Empty message provided - cannot determine workflow intent"

CONTINUE == "continue with execution"

\* the texts a caller sends: empty, whitespace only, or a real sentence
UserMessages == {"", "   ", "hello"}

\* variant: the emptiness test without strip()
is_blank_no_strip(text) == text = ""

\* not latest_message.strip()
is_blank(text) == strip(text) = ""

\* initial_state of run_workflow (lines 656-667)
initial_state(msg) ==
  [messages |-> <<HumanMessage(msg)>>,
   pkeys |-> {},
   params |-> [p \in PhaseSet |-> EmptyMap],
   results |-> NoResults,
   supervisor_out |-> NoDecision,
   current_phase |-> NONE,
   awaiting_input |-> FALSE,
   status |-> PENDING,
   error_count |-> 0,
   iteration_count |-> 0,
   error_message |-> NONE]

NoState == initial_state("")

\* latest human message of the log (lines 335-339)
RECURSIVE latest_human(_)
latest_human(msgs) ==
  IF msgs = <<>> THEN ""
  ELSE IF msgs[Len(msgs)].role = "human" THEN msgs[Len(msgs)].content
  ELSE latest_human(SubSeq(msgs, 1, Len(msgs) - 1))

has_results(s) == \E p \in PhaseSet : s.results[p] # NoResult

\* state["params"][p] with the dict created when p is no key yet
phase_params_of(s, p) == IF p \in s.pkeys THEN s.params[p] ELSE EmptyMap

(***************************************************************************)
(* The Phase Executor: enhanced_phase_node of _create_enhanced_phase_node. *)
(* s is the dict the node is called with, p the phase, b what the business *)
(* function does when it is invoked, e whether state.get("error_message")  *)
(* finds a None stored under the key (AIMessage(content=None) raises       *)
(* before the try block) or falls back to the default text.                *)
(* The value has: the dict the node returns (keys = its keys, v = their    *)
(* values), mut = s after the node's in-place assignments, and whether     *)
(* validation and the business function were called.                       *)
(***************************************************************************)
BusinessOutcomes ==
  {"completed", "completed_with_warnings", "incomplete", "failed", "archived",
   "raise", "raise_ValidationError"}

NodeReturn(outcome, keys, v, mut, validated, business, result) ==
  [outcome |-> outcome, keys |-> keys, v |-> v, mut |-> mut,
   validated |-> validated, business |-> business, result |-> result]

\* variant: the validation handler drops the phase
validation_error_return_leaves_phase(s1, p, business, outcome) ==
  LET s2 == [s1 EXCEPT !.params[p] =
                update(@, Map2(VALIDATION_FAILED, "True", LAST_ERROR, "verr"))]
  IN NodeReturn(outcome,
       {"messages", "awaiting_input", "current_phase", "status", "params", "error_count"},
       [s2 EXCEPT !.messages = <<AIMessage("validation_error", {})>>,
                  !.awaiting_input = TRUE,
                  !.current_phase = NONE,
                  !.status = COLLECTING_PARAMS,
                  !.error_count = s1.error_count + 1],
       s2, TRUE, business, NoResult)

\* variant: a validation failure marks the session FAILED while it still
\* waits for input
validation_error_return_marks_failed(s1, p, business, outcome) ==
  LET s2 == [s1 EXCEPT !.params[p] =
                update(@, Map2(VALIDATION_FAILED, "True", LAST_ERROR, "verr"))]
  IN NodeReturn(outcome,
       {"messages", "awaiting_input", "current_phase", "status", "params", "error_count"},
       [s2 EXCEPT !.messages = <<AIMessage("validation_error", {})>>,
                  !.awaiting_input = TRUE,
                  !.current_phase = p,
                  !.status = FAILED,
                  !.error_count = s1.error_count + 1],
       s2, TRUE, business, NoResult)

\* lines 606-623, the handler of ValidationError
validation_error_return(s1, p, business, outcome) ==
  LET s2 == [s1 EXCEPT !.params[p] =
                update(@, Map2(VALIDATION_FAILED, "True", LAST_ERROR, "verr"))]
  IN NodeReturn(outcome,
       {"messages", "awaiting_input", "current_phase", "status", "params", "error_count"},
       [s2 EXCEPT !.messages = <<AIMessage("validation_error", {})>>,
                  !.awaiting_input = TRUE,
                  !.current_phase = p,
                  !.status = COLLECTING_PARAMS,
                  !.error_count = s1.error_count + 1],
       s2, TRUE, business, NoResult)

\* variant: a terminal failure that does not count the error
failure_return_no_count(s1, outcome, text) ==
  NodeReturn(outcome,
    {"messages", "awaiting_input", "status", "error_count"},
    [s1 EXCEPT !.messages = <<AIMessage(text, {})>>,
               !.awaiting_input = FALSE,
               !.status = FAILED],
    s1, TRUE, TRUE, NoResult)

\* variant: a terminal failure releases the phase
failure_return_releases_phase(s1, outcome, text) ==
  NodeReturn(outcome,
    {"messages", "awaiting_input", "current_phase", "status", "error_count"},
    [s1 EXCEPT !.messages = <<AIMessage(text, {})>>,
               !.awaiting_input = FALSE,
               !.current_phase = NONE,
               !.status = FAILED,
               !.error_count = s1.error_count + 1],
    s1, TRUE, TRUE, NoResult)

\* lines 586-595 and 624-632: terminal failure
failure_return(s1, outcome, text) ==
  NodeReturn(outcome,
    {"messages", "awaiting_input", "status", "error_count"},
    [s1 EXCEPT !.messages = <<AIMessage(text, {})>>,
               !.awaiting_input = FALSE,
               !.status = FAILED,
               !.error_count = s1.error_count + 1],
    s1, TRUE, TRUE, NoResult)

\* variant: terminal success that keeps current_phase
success_return_keeps_phase(s1, p, outcome, result) ==
  NodeReturn(outcome,
    {"messages", "awaiting_input", "current_phase", "results", "status"},
    [s1 EXCEPT !.messages = <<AIMessage("success", {})>>,
               !.awaiting_input = FALSE,
               !.current_phase = p,
               !.results = [q \in PhaseSet |-> IF q = p THEN result ELSE NoResult],
               !.status = COMPLETED],
    s1, TRUE, TRUE, result)

\* lines 562-572 and 596-605: terminal success
success_return(s1, p, outcome, result) ==
  NodeReturn(outcome,
    {"messages", "awaiting_input", "current_phase", "results", "status"},
    [s1 EXCEPT !.messages = <<AIMessage("success", {})>>,
               !.awaiting_input = FALSE,
               !.current_phase = NONE,
               !.results = [q \in PhaseSet |-> IF q = p THEN result ELSE NoResult],
               !.status = COMPLETED],
    s1, TRUE, TRUE, result)

\* variant: the incomplete outcome stores the business result
incomplete_return_stores_result(s1, p) ==
  NodeReturn("incomplete",
    {"messages", "awaiting_input", "current_phase", "params", "results", "status"},
    [s1 EXCEPT !.messages = <<AIMessage("incomplete", {})>>,
               !.awaiting_input = TRUE,
               !.current_phase = p,
               !.results = [q \in PhaseSet |->
                              IF q = p THEN [status |-> "incomplete", args |-> EmptyMap]
                              ELSE NoResult],
               !.status = COLLECTING_PARAMS],
    s1, TRUE, TRUE, NoResult)

\* variant: an incomplete result ends the phase like a failure does
incomplete_return_as_failure(s1, p) ==
  NodeReturn("incomplete",
    {"messages", "awaiting_input", "status", "error_count"},
    [s1 EXCEPT !.messages = <<AIMessage("incomplete", {})>>,
               !.awaiting_input = FALSE,
               !.status = FAILED,
               !.error_count = s1.error_count + 1],
    s1, TRUE, TRUE, NoResult)

\* lines 574-584
incomplete_return(s1, p) ==
  NodeReturn("incomplete",
    {"messages", "awaiting_input", "current_phase", "params", "status"},
    [s1 EXCEPT !.messages = <<AIMessage("incomplete", {})>>,
               !.awaiting_input = TRUE,
               !.current_phase = p,
               !.status = COLLECTING_PARAMS],
    s1, TRUE, TRUE, NoResult)

\* variant: the prompt is emitted without marking the request as sent
parameter_request_return_no_flag(s1, p, missing_params) ==
  LET s2 == [s1 EXCEPT !.awaiting_input = TRUE, !.status = COLLECTING_PARAMS]
  IN NodeReturn("prompt",
       {"messages", "awaiting_input", "current_phase", "params", "status"},
       [s2 EXCEPT !.messages =
                    <<AIMessage("request", parameter_request_fields(missing_params, p))>>,
                  !.current_phase = p],
       s2, FALSE, FALSE, NoResult)

\* variant: once the flag is set the Executor words the prompt as a reminder
parameter_request_return_reminds(s1, p, missing_params) ==
  LET s2 == [s1 EXCEPT !.params[p] = update(@, Map1(REQUEST_SENT, "True")),
                       !.awaiting_input = TRUE,
                       !.status = COLLECTING_PARAMS]
  IN NodeReturn("prompt",
       {"messages", "awaiting_input", "current_phase", "params", "status"},
       [s2 EXCEPT !.messages =
                    <<AIMessage(IF s1.params[p][REQUEST_SENT] = "True" THEN "reminder"
                                ELSE "request",
                                parameter_request_fields(missing_params, p))>>,
                  !.current_phase = p],
       s2, FALSE, FALSE, NoResult)

\* lines 529-549
parameter_request_return(s1, p, missing_params) ==
  LET s2 == [s1 EXCEPT !.params[p] = update(@, Map1(REQUEST_SENT, "True")),
                       !.awaiting_input = TRUE,
                       !.status = COLLECTING_PARAMS]
  IN NodeReturn("prompt",
       {"messages", "awaiting_input", "current_phase", "params", "status"},
       [s2 EXCEPT !.messages =
                    <<AIMessage("request", parameter_request_fields(missing_params, p))>>,
                  !.current_phase = p],
       s2, FALSE, FALSE, NoResult)

\* lines 505-513
failed_state_return(s, e) ==
  IF s.error_message = NONE /\ e
  THEN NodeReturn("escaped", {}, s, s, FALSE, FALSE, NoResult)
  ELSE NodeReturn("short_circuit",
         {"messages", "awaiting_input", "status", "error_count"},
         [s EXCEPT !.messages =
                     <<AIMessage(IF s.error_message = NONE THEN "Error: Workflow failed"
                                 ELSE s.error_message, {})>>,
                   !.awaiting_input = FALSE,
                   !.status = FAILED],
         s, FALSE, FALSE, NoResult)

\* lines 554-605: validation succeeded, the business function is called
execute_return(s1, p, clean_params, b) ==
  LET s2 == [s1 EXCEPT !.status = EXECUTING]
      result == [status |-> b, args |-> validate_parameters(clean_params, p)]
  IN CASE b \in {"completed", "completed_with_warnings"} -> success_return(s2, p, "completed", result)
       [] b = "incomplete" -> incomplete_return(s2, p)
       [] b = "failed" -> failure_return(s2, "failed", "failed validation")
       [] b = "raise" -> failure_return(s2, "raised", "Error in phase")
       [] b = "raise_ValidationError" -> validation_error_return(s2, p, TRUE, "business_validation_error")
       [] OTHER -> success_return(s2, p, "unknown_status", result)

\* lines 520-524: clean_params, the phase's dict without internal flags
clean_params_of(s, p) == strip_internal_flags(phase_params_of(s, p))

enhanced_phase_node(s, p, b, e) ==
  IF s.status = FAILED THEN failed_state_return(s, e)
  ELSE
    LET s1 == [s EXCEPT !.pkeys = @ \cup {p}, !.params[p] = phase_params_of(s, p)]
        clean_params == clean_params_of(s, p)
        missing_params == get_missing_parameters(clean_params, p)
    IN IF missing_params # {} THEN parameter_request_return(s1, p, missing_params)
       ELSE IF ~validation_succeeds(clean_params, p)
            THEN validation_error_return(s1, p, FALSE, "validation_failed")
            ELSE execute_return(s1, p, clean_params, b)

\* how the graph applies a node's return to the channels: messages through
\* the add_messages reducer, every other returned key overwrites; the
\* in-place changes of the nested params dict stay in the channel
graph_apply(chan, r) ==
  [messages |-> IF "messages" \in r.keys THEN chan.messages \o r.v.messages ELSE chan.messages,
   pkeys |-> IF "params" \in r.keys THEN r.v.pkeys ELSE r.mut.pkeys,
   params |-> IF "params" \in r.keys THEN r.v.params ELSE r.mut.params,
   results |-> IF "results" \in r.keys THEN r.v.results ELSE chan.results,
   supervisor_out |-> chan.supervisor_out,
   current_phase |-> IF "current_phase" \in r.keys THEN r.v.current_phase ELSE chan.current_phase,
   awaiting_input |-> IF "awaiting_input" \in r.keys THEN r.v.awaiting_input ELSE chan.awaiting_input,
   status |-> IF "status" \in r.keys THEN r.v.status ELSE chan.status,
   error_count |-> IF "error_count" \in r.keys THEN r.v.error_count ELSE chan.error_count,
   iteration_count |-> chan.iteration_count,
   error_message |-> chan.error_message]

\* {**updated_state, **result} of add_user_input (line 766): a plain dict
\* merge over the dict the node has mutated
dict_merge(r) ==
  [messages |-> IF "messages" \in r.keys THEN r.v.messages ELSE r.mut.messages,
   pkeys |-> IF "params" \in r.keys THEN r.v.pkeys ELSE r.mut.pkeys,
   params |-> IF "params" \in r.keys THEN r.v.params ELSE r.mut.params,
   results |-> IF "results" \in r.keys THEN r.v.results ELSE r.mut.results,
   supervisor_out |-> r.mut.supervisor_out,
   current_phase |-> IF "current_phase" \in r.keys THEN r.v.current_phase ELSE r.mut.current_phase,
   awaiting_input |-> IF "awaiting_input" \in r.keys THEN r.v.awaiting_input ELSE r.mut.awaiting_input,
   status |-> IF "status" \in r.keys THEN r.v.status ELSE r.mut.status,
   error_count |-> IF "error_count" \in r.keys THEN r.v.error_count ELSE r.mut.error_count,
   iteration_count |-> r.mut.iteration_count,
   error_message |-> r.mut.error_message]

\* graph.update_state(config, final_state): the values go through the
\* channels' reducers on top of the persisted state
update_state(persisted, final_state) ==
  [final_state EXCEPT !.messages = persisted.messages \o final_state.messages]

(***************************************************************************)
(* State of the model.                                                     *)
(*   store, saved  the checkpointer: persisted state per thread id         *)
(*   pc            position of the call in progress ("idle": none)         *)
(*   frame         locals of run_workflow / add_user_input / supervisor    *)
(*   st            channel values of the running graph, or the dict        *)
(*                 add_user_input works on                                 *)
(*   ex            locals of _extract_parameters_with_structured_output    *)
(*   ret           what the last call returned                             *)
(*   h             what happened during the call in progress (observer)    *)
(*   enable_auto_continuation   WorkflowConfig.enable_auto_continuation    *)
(***************************************************************************)
VARIABLES store, saved, pc, frame, st, ex, ret, h, enable_auto_continuation

vars == <<store, saved, pc, frame, st, ex, ret, h, enable_auto_continuation>>

NoFrame ==
  [thread |-> NONE, origin |-> NONE, msg |-> "", iteration |-> 0, node |-> NONE,
   classified |-> NONE, decision |-> NoDecision]

NoExtraction ==
  [ctx |-> NONE, phase |-> NONE, attempt |-> 0, structured_calls |-> 0,
   succeeded |-> FALSE, fallback_calls |-> 0, fallback_failed |-> FALSE,
   outcome |-> NONE,
   value |-> EmptyMap]

NewExtraction(ctx, p) == [NoExtraction EXCEPT !.ctx = ctx, !.phase = p]

NoReturn == [kind |-> NONE, state |-> NoState]

NewCall(t, engaged) ==
  [fresh |-> t \notin saved, engaged |-> engaged,
   classify |-> 0, structured |-> FALSE, fallback |-> FALSE, exec |-> 0, validate |-> 0,
   business |-> 0, hops |-> 0,
   first_missing |-> {}, first_outcome |-> NONE,
   last_phase |-> NONE, last_outcome |-> NONE, last_business |-> FALSE,
   entry_error_count |-> 0, entry_request_sent |-> ABSENT, entry_status |-> NONE,
   extraction_failed |-> FALSE, classify_raised |-> FALSE,
   clean_keys |-> {},
   pre_params |-> IF engaged THEN phase_params_of(store[t], store[t].current_phase)
                  ELSE EmptyMap,
   new_params |-> EmptyMap]

Init ==
  /\ store = [t \in Threads |-> NoState]
  /\ saved = {}
  /\ pc = "idle"
  /\ frame = NoFrame
  /\ st = NoState
  /\ ex = NoExtraction
  /\ ret = NoReturn
  /\ h = NewCall("t1", FALSE)
  /\ enable_auto_continuation \in BOOLEAN

\* variant: the results channel of the thread's checkpoint survives the
\* input of a new run
start_graph_keeps_results(t, msg, origin, engaged) ==
  /\ st' = [initial_state(msg) EXCEPT
              !.messages = (IF t \in saved THEN store[t].messages ELSE <<>>) \o @,
              !.results = IF t \in saved THEN store[t].results ELSE @]
  /\ pc' = "supervisor"
  /\ frame' = [NoFrame EXCEPT !.thread = t, !.origin = origin, !.msg = msg]
  /\ ex' = NoExtraction
  /\ ret' = NoReturn
  /\ h' = NewCall(t, engaged)
  /\ UNCHANGED <<store, saved, enable_auto_continuation>>

\* graph.invoke(input, config): the input is written to the channels of the
\* thread's last checkpoint, messages through add_messages
start_graph(t, msg, origin, engaged) ==
  /\ st' = [initial_state(msg) EXCEPT
              !.messages = (IF t \in saved THEN store[t].messages ELSE <<>>) \o @]
  /\ pc' = "supervisor"
  /\ frame' = [NoFrame EXCEPT !.thread = t, !.origin = origin, !.msg = msg]
  /\ ex' = NoExtraction
  /\ ret' = NoReturn
  /\ h' = NewCall(t, engaged)
  /\ UNCHANGED <<store, saved, enable_auto_continuation>>

\* run_workflow(initial_message, thread_id), lines 655-672, on a session
\* whose log has fewer than n entries
run_workflow_within(t, msg, n) ==
  /\ pc = "idle"
  /\ Len(store[t].messages) < n
  /\ start_graph(t, msg, "run_workflow", FALSE)

run_workflow(t, msg) == run_workflow_within(t, msg, MaxLog)

\* variant: only a thread without persisted state starts a fresh workflow
starts_fresh_workflow_unsaved_only(t) == t \notin saved

\* lines 727-738 of add_user_input: no persisted state, or no current_phase
starts_fresh_workflow(t) == t \notin saved \/ store[t].current_phase = NONE

\* variant: the engaged phase is the first registered phase
engaged_phase_first_registered(t) == phase_names[1]

\* line 734: current_phase = state.get("current_phase")
engaged_phase(t) == store[t].current_phase

\* add_user_input(user_input, thread_id), lines 723-738: no state or no
\* current_phase degrades to run_workflow; otherwise extraction scoped to
\* current_phase starts (line 741)
add_user_input_within(t, msg, n) ==
  /\ pc = "idle"
  /\ Len(store[t].messages) < n
  /\ IF starts_fresh_workflow(t)
     THEN start_graph(t, msg, "add_user_input", FALSE)
     ELSE /\ st' = store[t]
          /\ pc' = "extract"
          /\ frame' = [NoFrame EXCEPT !.thread = t, !.origin = "add_user_input",
                                      !.msg = msg, !.node = engaged_phase(t)]
          /\ ex' = NewExtraction("add_user_input", engaged_phase(t))
          /\ ret' = NoReturn
          /\ h' = NewCall(t, TRUE)
          /\ UNCHANGED <<store, saved, enable_auto_continuation>>

add_user_input(t, msg) == add_user_input_within(t, msg, MaxLog)

\* variant: the checkpoint is written under every thread id
end_graph_shared_store(s) ==
  /\ st' = s
  /\ store' = [u \in DOMAIN store |-> s]
  /\ saved' = saved \cup DOMAIN store
  /\ pc' = "invoked"

\* the graph run ends: its last checkpoint is the thread's persisted state
\* and graph.invoke returns the channel values
end_graph(s) ==
  /\ st' = s
  /\ store' = [store EXCEPT ![frame.thread] = s]
  /\ saved' = saved \cup {frame.thread}
  /\ pc' = "invoked"

\* _supervisor_node on an empty or whitespace-only message, lines 341-345
\* and 413-430: line 344 counts the error in the node's dict and line 415
\* counts it again from that dict
supervisor_node_empty ==
  /\ pc = "supervisor"
  /\ is_blank(latest_human(st.messages))
  /\ end_graph([st EXCEPT
        !.messages = Append(@, AIMessage(EMPTY_MESSAGE_ERROR, {})),
        !.awaiting_input = FALSE,
        !.status = FAILED,
        !.error_count = (st.error_count + 1) + 1,
        !.error_message = EMPTY_MESSAGE_ERROR,
        !.current_phase = NONE,
        !.supervisor_out = [next_phase |-> "error", intent |-> "critical_error",
                            confidence |-> 0]])
  /\ h' = [h EXCEPT !.hops = @ + 1]
  /\ UNCHANGED <<frame, ex, ret, enable_auto_continuation>>

\* what the classification capability does: a decision (its phase name may
\* be outside the registered set; confidence in tenths) or an exception
ClassifierOutcomes ==
  {[kind |-> "decision", next_phase |-> n, confidence |-> c] :
      n \in PhaseSet \cup {"unknown_phase"}, c \in {9}}
    \cup {[kind |-> "raise", next_phase |-> NONE, confidence |-> 0]}

\* variant: the phase is substituted but the confidence is kept
validate_decision_keeps_confidence(c) ==
  IF c.next_phase \notin PhaseSet
  THEN [next_phase |-> phase_names[1], intent |-> "intent", confidence |-> c.confidence]
  ELSE [next_phase |-> c.next_phase, intent |-> "intent", confidence |-> c.confidence]

\* lines 383-386
validate_decision(c) ==
  IF c.next_phase \notin PhaseSet
  THEN [next_phase |-> phase_names[1], intent |-> "intent", confidence |-> 5]
  ELSE [next_phase |-> c.next_phase, intent |-> "intent", confidence |-> c.confidence]

\* variant: after a failed classification the Router still runs the
\* extraction pass, scoped to the default phase
supervisor_node_extracts_after_raise(c) ==
  /\ pc = "supervisor"
  /\ ~is_blank(latest_human(st.messages))
  /\ IF c.kind = "raise"
     THEN /\ frame' = [frame EXCEPT !.node = phase_names[1],
                                    !.classified = NONE,
                                    !.decision = NoDecision]
          /\ pc' = "extract"
          /\ ex' = NewExtraction("supervisor", phase_names[1])
     ELSE /\ frame' = [frame EXCEPT !.node = validate_decision(c).next_phase,
                                    !.classified = c.next_phase,
                                    !.decision = validate_decision(c)]
          /\ pc' = "extract"
          /\ ex' = NewExtraction("supervisor", validate_decision(c).next_phase)
  /\ h' = [h EXCEPT !.classify = @ + 1, !.hops = @ + 1,
                     !.classify_raised = (c.kind = "raise")]
  /\ UNCHANGED <<store, saved, st, ret, enable_auto_continuation>>

\* _supervisor_node on a non-empty message, lines 347-411 and 432-438.  The
\* assignments to state["supervisor_out"], ["current_phase"], ["status"]
\* and ["error_count"] change the node's own dict only.
supervisor_node(c) ==
  /\ pc = "supervisor"
  /\ ~is_blank(latest_human(st.messages))
  /\ IF c.kind = "raise"
     THEN /\ frame' = [frame EXCEPT !.node = phase_names[1],
                                    !.classified = NONE,
                                    !.decision = NoDecision]
          /\ pc' = "phase"
          /\ ex' = NoExtraction
     ELSE /\ frame' = [frame EXCEPT !.node = validate_decision(c).next_phase,
                                    !.classified = c.next_phase,
                                    !.decision = validate_decision(c)]
          /\ pc' = "extract"
          /\ ex' = NewExtraction("supervisor", validate_decision(c).next_phase)
  /\ h' = [h EXCEPT !.classify = @ + 1, !.hops = @ + 1,
                     !.classify_raised = (c.kind = "raise")]
  /\ UNCHANGED <<store, saved, st, ret, enable_auto_continuation>>

(***************************************************************************)
(* _extract_parameters_with_structured_output, lines 186-230, one action   *)
(* per capability call.                                                    *)
(***************************************************************************)
\* an attempt of the schema-constrained capability succeeds: lines 188-217
structured_attempt_succeeds(raw) ==
  /\ pc = "extract"
  /\ ex.attempt < parameter_extraction_retries
  /\ raw \in StructuredOutputs(ex.phase)
  /\ ex' = [ex EXCEPT !.structured_calls = @ + 1,
                      !.succeeded = TRUE,
                      !.outcome = "returned",
                      !.value = structured_valid_params(raw)]
  /\ pc' = "extracted"
  /\ h' = [h EXCEPT !.structured = TRUE]
  /\ UNCHANGED <<store, saved, frame, st, ret, enable_auto_continuation>>

\* variant: the first failed attempt already goes on to the fallback
structured_attempt_fails_early ==
  /\ pc = "extract"
  /\ ex.attempt < parameter_extraction_retries
  /\ ex' = [ex EXCEPT !.structured_calls = @ + 1, !.attempt = @ + 1]
  /\ pc' = "fallback"
  /\ h' = [h EXCEPT !.structured = TRUE]
  /\ UNCHANGED <<store, saved, frame, st, ret, enable_auto_continuation>>

\* an attempt fails: lines 219-221; the last one goes on to the fallback
structured_attempt_fails ==
  /\ pc = "extract"
  /\ ex.attempt < parameter_extraction_retries
  /\ ex' = [ex EXCEPT !.structured_calls = @ + 1, !.attempt = @ + 1]
  /\ pc' = IF ex.attempt = parameter_extraction_retries - 1 THEN "fallback" ELSE "extract"
  /\ h' = [h EXCEPT !.structured = TRUE]
  /\ UNCHANGED <<store, saved, frame, st, ret, enable_auto_continuation>>

\* what _extract_parameters_with_fallback does with the capability's
\* outcome o (lines 104-142): it returns a dict and never raises
fallback_call(o) ==
  [raised |-> FALSE, value |-> extract_parameters_with_fallback(o)]

\* lines 222-228: the fallback is tried once; only an exception leaving it
\* is turned into ParameterExtractionError
fallback_extraction(o) ==
  /\ pc = "fallback"
  /\ o \in FallbackOutcomes
  /\ ex' = [ex EXCEPT !.fallback_calls = @ + 1,
                      !.fallback_failed = (o.kind # "object"),
                      !.outcome = IF fallback_call(o).raised THEN "raised" ELSE "returned",
                      !.value = IF fallback_call(o).raised THEN EmptyMap
                                ELSE fallback_call(o).value]
  /\ pc' = "extracted"
  /\ h' = [h EXCEPT !.fallback = TRUE, !.extraction_failed = (o.kind # "object")]
  /\ UNCHANGED <<store, saved, frame, st, ret, enable_auto_continuation>>

\* dict.update of the phase's parameter dict inside state["params"]
merge_params(s, p, new_params) ==
  [s EXCEPT !.pkeys = @ \cup {p},
            !.params[p] = update(phase_params_of(s, p), new_params)]

\* variant: a failed extraction is not swallowed but handled like any other
\* error of the Router, which goes to the first registered phase
supervisor_goto_unswallowed ==
  /\ pc = "extracted"
  /\ ex.ctx = "supervisor"
  /\ st' = IF ex.outcome = "returned" THEN merge_params(st, frame.node, ex.value) ELSE st
  /\ pc' = "phase"
  /\ ex' = NoExtraction
  /\ frame' = [frame EXCEPT !.decision = NoDecision, !.classified = NONE,
                            !.node = IF ex.fallback_failed THEN phase_names[1] ELSE @]
  /\ UNCHANGED <<store, saved, ret, h, enable_auto_continuation>>

\* _supervisor_node after its extraction pass, lines 399-411: merge into
\* the channel's params dict, or swallow ParameterExtractionError, then
\* Command(goto=next_phase)
supervisor_goto ==
  /\ pc = "extracted"
  /\ ex.ctx = "supervisor"
  /\ st' = IF ex.outcome = "returned" THEN merge_params(st, frame.node, ex.value) ELSE st
  /\ pc' = "phase"
  /\ ex' = NoExtraction
  /\ frame' = [frame EXCEPT !.decision = NoDecision, !.classified = NONE]
  /\ UNCHANGED <<store, saved, ret, h, enable_auto_continuation>>

\* bookkeeping of one Executor invocation on the dict s
observe_node(s, p, r) ==
  [h EXCEPT !.exec = @ + 1,
            !.validate = @ + (IF r.validated THEN 1 ELSE 0),
            !.business = @ + (IF r.business THEN 1 ELSE 0),
            !.first_missing = IF h.exec = 0
                              THEN get_missing_parameters(strip_internal_flags(phase_params_of(s, p)), p)
                              ELSE @,
            !.first_outcome = IF h.exec = 0 THEN r.outcome ELSE @,
            !.last_phase = p,
            !.last_outcome = r.outcome,
            !.last_business = r.business,
            !.entry_error_count = s.error_count,
            !.entry_status = s.status,
            !.entry_request_sent = phase_params_of(s, p)[REQUEST_SENT],
            !.clean_keys = IF r.outcome \in {"short_circuit", "escaped"} THEN {}
                           ELSE Keys(clean_params_of(s, p))]

\* the exception path of run_workflow, lines 702-708
run_workflow_error ==
  [kind |-> "error", state |-> [NoState EXCEPT !.status = FAILED, !.messages = <<>>]]

\* the phase node run by the graph; its return ends the graph run
phase_node(b, e) ==
  /\ pc = "phase"
  /\ b \in BusinessOutcomes
  /\ e \in BOOLEAN
  /\ LET r == enhanced_phase_node(st, frame.node, b, e)
     IN /\ h' = observe_node(st, frame.node, r)
        /\ IF r.outcome = "escaped"
           THEN /\ ret' = run_workflow_error
                /\ pc' = "idle"
                /\ UNCHANGED <<store, saved, st>>
           ELSE /\ end_graph(graph_apply(st, r))
                /\ ret' = ret
  /\ UNCHANGED <<frame, ex, enable_auto_continuation>>

\* variant: the loop admits one iteration more than configured
can_auto_continue_one_more ==
  /\ enable_auto_continuation
  /\ st.awaiting_input
  /\ frame.iteration < max_iterations + 1
  /\ ~has_results(st)
  /\ st.current_phase # NONE
  /\ st.current_phase \in st.pkeys
  /\ get_missing_parameters(strip_internal_flags(st.params[st.current_phase]),
                            st.current_phase) = {}

\* variant: the loop does not recheck the phase's map for missing fields
can_auto_continue_without_recheck ==
  /\ enable_auto_continuation
  /\ st.awaiting_input
  /\ frame.iteration < max_iterations
  /\ ~has_results(st)

\* the loop condition and completeness check of lines 673-692
can_auto_continue ==
  /\ enable_auto_continuation
  /\ st.awaiting_input
  /\ frame.iteration < max_iterations
  /\ ~has_results(st)
  /\ st.current_phase # NONE
  /\ st.current_phase \in st.pkeys
  /\ get_missing_parameters(strip_internal_flags(st.params[st.current_phase]),
                            st.current_phase) = {}

\* lines 693-695: append the synthetic message and invoke the graph again
\* with the whole result as input
auto_continue ==
  /\ pc = "invoked"
  /\ can_auto_continue
  /\ frame' = [frame EXCEPT !.iteration = @ + 1]
  /\ st' = [st EXCEPT !.messages = Append(@, HumanMessage(CONTINUE))]
  /\ pc' = "supervisor"
  /\ UNCHANGED <<store, saved, ex, ret, h, enable_auto_continuation>>

\* line 701: return result
run_workflow_return ==
  /\ pc = "invoked"
  /\ ~can_auto_continue
  /\ ret' = [kind |-> "state", state |-> st]
  /\ pc' = "idle"
  /\ UNCHANGED <<store, saved, frame, st, ex, h, enable_auto_continuation>>

\* variant: the extracted fields replace the phase's parameter dict
add_merge_replaces(s, p, new_params) ==
  [s EXCEPT !.pkeys = @ \cup {p}, !.params[p] = new_params]

\* variant: a field that already has a value keeps it
add_merge_keeps_old(s, p, new_params) ==
  [s EXCEPT !.pkeys = @ \cup {p},
            !.params[p] = update(new_params,
                                 [phase_params_of(s, p) EXCEPT ![REQUEST_SENT] = ABSENT])]

\* lines 742-750 of add_user_input: merge of the extracted fields
add_merge(s, p, new_params) ==
  [s EXCEPT !.pkeys = @ \cup {p},
            !.params[p] = update([phase_params_of(s, p) EXCEPT ![REQUEST_SENT] = ABSENT],
                                 new_params)]

\* lines 771-777 of add_user_input
add_user_input_error ==
  [kind |-> "error",
   state |-> [NoState EXCEPT !.status = FAILED,
                !.messages = <<AIMessage("Error processing input", {})>>]]

\* add_user_input after its extraction, lines 742-770: merge, append the
\* message, call the phase node directly, merge its return, persist
add_user_input_execute(b, e) ==
  /\ pc = "extracted"
  /\ ex.ctx = "add_user_input"
  /\ b \in BusinessOutcomes
  /\ e \in BOOLEAN
  /\ LET state == IF ex.outcome = "returned" THEN add_merge(st, frame.node, ex.value) ELSE st
         updated_state == [state EXCEPT !.messages = Append(@, HumanMessage(frame.msg)),
                                        !.awaiting_input = FALSE,
                                        !.iteration_count = @ + 1]
         r == enhanced_phase_node(updated_state, frame.node, b, e)
         final_state == dict_merge(r)
     IN /\ h' = [observe_node(updated_state, frame.node, r) EXCEPT
                   !.new_params = IF ex.outcome = "returned" THEN ex.value ELSE EmptyMap]
        /\ IF r.outcome = "escaped"
           THEN /\ ret' = add_user_input_error
                /\ UNCHANGED <<store, st>>
           ELSE /\ store' = [store EXCEPT ![frame.thread] = update_state(@, final_state)]
                /\ st' = final_state
                /\ ret' = [kind |-> "state", state |-> final_state]
  /\ pc' = "idle"
  /\ ex' = NoExtraction
  /\ UNCHANGED <<saved, frame, enable_auto_continuation>>

Next ==
  \/ \E t \in Threads, msg \in UserMessages : run_workflow(t, msg)
  \/ \E t \in Threads, msg \in UserMessages : add_user_input(t, msg)
  \/ supervisor_node_empty
  \/ \E c \in ClassifierOutcomes : supervisor_node(c)
  \/ \E raw \in StructuredOutputs(ex.phase) : structured_attempt_succeeds(raw)
  \/ structured_attempt_fails
  \/ \E o \in FallbackOutcomes : fallback_extraction(o)
  \/ supervisor_goto
  \/ \E b \in BusinessOutcomes, e \in BOOLEAN : phase_node(b, e)
  \/ auto_continue
  \/ run_workflow_return
  \/ \E b \in BusinessOutcomes, e \in BOOLEAN : add_user_input_execute(b, e)

Spec == Init /\ [][Next]_vars

(***************************************************************************)
(* Two sessions.  The engine serves calls on two thread ids in any order,  *)
(* one call at a time; the callers send a real sentence or a blank one,    *)
(* the classifier names a registered phase, the free-text fallback fails,  *)
(* the business function returns completed, incomplete or failed.          *)
(***************************************************************************)
ThreadPair == {"t1", "t2"}

PairInit ==
  /\ store = [t \in ThreadPair |-> NoState]
  /\ saved = {}
  /\ pc = "idle"
  /\ frame = NoFrame
  /\ st = NoState
  /\ ex = NoExtraction
  /\ ret = NoReturn
  /\ h = NewCall("t1", FALSE)
  /\ enable_auto_continuation = TRUE

PairMessages == {"   ", "hello"}

PairBusinessOutcomes == {"completed", "incomplete", "failed"}

PairNext ==
  \/ \E t \in ThreadPair, msg \in PairMessages : run_workflow(t, msg)
  \/ \E t \in ThreadPair, msg \in PairMessages : add_user_input(t, msg)
  \/ supervisor_node_empty
  \/ \E c \in ClassifierOutcomes : c.next_phase \in PhaseSet /\ supervisor_node(c)
  \/ \E raw \in StructuredOutputs(ex.phase) :
        /\ raw["user_name"] \notin {"None", " None "}
        /\ structured_attempt_succeeds(raw)
  \/ structured_attempt_fails
  \/ \E o \in FallbackOutcomes : o.kind = "error" /\ fallback_extraction(o)
  \/ supervisor_goto
  \/ \E b \in PairBusinessOutcomes : phase_node(b, FALSE)
  \/ auto_continue
  \/ run_workflow_return
  \/ \E b \in PairBusinessOutcomes : add_user_input_execute(b, FALSE)

PairSpec == PairInit /\ [][PairNext]_vars

(***************************************************************************)
(* A long session.  One thread takes calls until its log has LongLog       *)
(* entries; auto-continuation is disabled, the callers send a real         *)
(* sentence, the classifier names a registered phase, the free-text        *)
(* fallback fails.                                                         *)
(***************************************************************************)
LongLog == 5

LongInit ==
  /\ store = [t \in Threads |-> NoState]
  /\ saved = {}
  /\ pc = "idle"
  /\ frame = NoFrame
  /\ st = NoState
  /\ ex = NoExtraction
  /\ ret = NoReturn
  /\ h = NewCall("t1", FALSE)
  /\ enable_auto_continuation = FALSE

LongNext ==
  \/ \E t \in Threads : run_workflow_within(t, "hello", LongLog)
  \/ \E t \in Threads : add_user_input_within(t, "hello", LongLog)
  \/ \E c \in ClassifierOutcomes : c.next_phase \in PhaseSet /\ supervisor_node(c)
  \/ \E raw \in StructuredOutputs(ex.phase) :
        /\ raw["user_name"] \notin {"None", " None "}
        /\ structured_attempt_succeeds(raw)
  \/ structured_attempt_fails
  \/ \E o \in FallbackOutcomes : o.kind = "error" /\ fallback_extraction(o)
  \/ supervisor_goto
  \/ \E b \in BusinessOutcomes : phase_node(b, FALSE)
  \/ run_workflow_return
  \/ \E b \in BusinessOutcomes, e \in BOOLEAN : add_user_input_execute(b, e)

LongSpec == LongInit /\ [][LongNext]_vars

(***************************************************************************)
(* Properties.                                                             *)
(* A turn is one Router -> Executor hop of the graph, or the one Executor  *)
(* invocation of an engaged add_user_input.  When pc is "invoked" or       *)
(* "idle", st is the state the last turn ended with; at "idle" after a     *)
(* normal return, ret.state is that state.                                 *)
(***************************************************************************)
TurnEnded == pc \in {"invoked", "idle"} /\ h.exec >= 1

Returned == pc = "idle" /\ frame.origin # NONE

BlankMessages == {"", "   "}

\* the business fields of phase p in state s
business_map(s, p) == strip_internal_flags(phase_params_of(s, p))

complete_and_valid(m, p) ==
  get_missing_parameters(m, p) = {} /\ validation_succeeds(m, p)

\* C1: run_workflow on a fresh thread with a non-empty message whose first
\* hop finds every required field of the chosen phase after the Router's
\* extraction pass, with valid values, and whose business function returns
\* completed or completed_with_warnings, returns status COMPLETED with that
\* result stored under the phase, awaiting_input false and no current_phase.
C1_CompletedOnFirstTurn ==
  (/\ Returned
   /\ ~h.engaged
   /\ h.fresh
   /\ frame.msg \notin BlankMessages
   /\ h.exec >= 1
   /\ h.first_missing = {}
   /\ h.first_outcome = "completed")
  => /\ ret.kind = "state"
     /\ h.exec = 1
     /\ ret.state.status = COMPLETED
     /\ ret.state.results[h.last_phase].status \in {"completed", "completed_with_warnings"}
     /\ ret.state.results[h.last_phase].args =
          validate_parameters(business_map(ret.state, h.last_phase), h.last_phase)
     /\ complete_and_valid(business_map(ret.state, h.last_phase), h.last_phase)
     /\ ret.state.awaiting_input = FALSE
     /\ ret.state.current_phase = NONE

C1_Witness ==
  /\ Returned
  /\ frame.origin = "run_workflow"
  /\ h.fresh
  /\ h.first_outcome = "completed"
  /\ ret.state.status = COMPLETED
  /\ ret.state.results[REP].status = "completed_with_warnings"
  /\ ret.state.results[REP].args["user_name"] = "Alice"

\* C2: when a required field of the chosen phase is still missing after
\* routing and the Router's extraction pass, run_workflow returns status
\* COLLECTING_PARAMS, awaiting_input true, current_phase = that phase, the
\* phase's request-sent flag set, and the business function was not called.
C2_MissingFieldPrompt ==
  (/\ Returned
   /\ ~h.engaged
   /\ h.exec >= 1
   /\ h.first_missing # {})
  => /\ ret.kind = "state"
     /\ h.exec = 1
     /\ h.business = 0
     /\ ret.state.status = COLLECTING_PARAMS
     /\ ret.state.awaiting_input = TRUE
     /\ ret.state.current_phase = h.last_phase
     /\ ret.state.current_phase \in ret.state.pkeys
     /\ ret.state.params[h.last_phase][REQUEST_SENT] = "True"

C2_Witness ==
  /\ Returned
  /\ frame.origin = "run_workflow"
  /\ h.first_missing = {"report_type"}
  /\ ret.state.current_phase = REP
  /\ ret.state.params[REP]["user_name"] = "Alice"
  /\ ret.state.status = COLLECTING_PARAMS

\* an engaged add_user_input has returned a state
EngagedReturn == pc = "idle" /\ h.engaged /\ ret.kind = "state"

\* every field is what the turn extracted for it, else what was collected before
FieldsRetained ==
  \A k \in AllKeys \ ReservedKeys :
     business_map(ret.state, frame.node)[k] =
       IF h.new_params[k] # ABSENT THEN h.new_params[k] ELSE h.pre_params[k]

\* this is the first turn at which the accumulated fields are complete and valid
FirstCompleteTurn ==
  /\ complete_and_valid(business_map(ret.state, frame.node), frame.node)
  /\ ~complete_and_valid(strip_internal_flags(h.pre_params), frame.node)

ResultFromAccumulatedFields ==
  /\ ret.state.status = COMPLETED
  /\ ret.state.results[frame.node].args =
       validate_parameters(business_map(ret.state, frame.node), frame.node)
  /\ \A k \in get_user_input_fields(frame.node) :
        ret.state.results[frame.node].args[k] =
          IF h.new_params[k] # ABSENT THEN h.new_params[k] ELSE h.pre_params[k]

\* C3 as stated: fields of earlier turns are retained and the session is
\* COMPLETED on the first turn at which the accumulated fields cover all
\* required fields with valid values, the result computed from them.
C3_AsStated ==
  EngagedReturn => /\ FieldsRetained
                   /\ FirstCompleteTurn => ResultFromAccumulatedFields

\* C3 amended: fields of earlier turns are retained (a turn only adds or
\* overwrites what it extracts); on the first turn at which the accumulated
\* fields cover all required fields with valid values the business function
\* is invoked, and when it returns completed or completed_with_warnings the
\* session is COMPLETED with the result computed from the accumulated fields.
C3_AccumulateThenExecute ==
  EngagedReturn =>
    /\ FieldsRetained
    /\ FirstCompleteTurn =>
         /\ h.business = 1
         /\ h.last_outcome = "completed" => ResultFromAccumulatedFields

C3_Witness ==
  /\ EngagedReturn
  /\ FirstCompleteTurn
  /\ h.pre_params["user_name"] = "Alice"
  /\ h.pre_params["report_type"] = ABSENT
  /\ h.new_params["user_name"] = ABSENT
  /\ h.new_params["report_type"] = "monthly"
  /\ ret.state.status = COMPLETED
  /\ ret.state.results[REP].args["user_name"] = "Alice"
  /\ ret.state.results[REP].args["report_type"] = "monthly"

\* C4: run_workflow with an empty or whitespace-only message returns status
\* FAILED with an error message, awaiting_input false and no current_phase,
\* and classification, both extraction capabilities and every Executor were
\* not invoked during the call.
C4_EmptyMessageFastPath ==
  (Returned /\ ~h.engaged /\ frame.msg \in BlankMessages)
  => /\ ret.kind = "state"
     /\ ret.state.status = FAILED
     /\ ret.state.error_message = EMPTY_MESSAGE_ERROR
     /\ ret.state.messages[Len(ret.state.messages)] = AIMessage(EMPTY_MESSAGE_ERROR, {})
     /\ ret.state.awaiting_input = FALSE
     /\ ret.state.current_phase = NONE
     /\ h.classify = 0
     /\ ~h.structured
     /\ ~h.fallback
     /\ h.exec = 0

C4_Witness ==
  /\ Returned
  /\ frame.origin = "run_workflow"
  /\ frame.msg = "   "
  /\ ret.state.status = FAILED
  /\ h.classify = 0

\* the Router is inside its extraction pass
RouterExtracting == pc \in {"extract", "fallback", "extracted"} /\ ex.ctx = "supervisor"

\* C5: for a non-empty triggering message the phase the Router hops to is a
\* registered phase; when the classifier names a phase outside the set the
\* Router substitutes the first registered phase with confidence 0.5.
C5_RouterTargetRegistered ==
  /\ pc = "phase" => frame.node \in PhaseSet
  /\ RouterExtracting =>
       /\ frame.node \in PhaseSet
       /\ frame.node = frame.decision.next_phase
       /\ ex.phase = frame.node
       /\ frame.classified \in PhaseSet => frame.node = frame.classified
       /\ frame.classified \notin PhaseSet =>
            /\ frame.node = phase_names[1]
            /\ frame.decision.confidence = 5

C5_Witness ==
  /\ RouterExtracting
  /\ frame.classified = "unknown_phase"
  /\ frame.node = FIN
  /\ frame.decision.confidence = 5

\* C6: a turn whose business function returns a result tagged failed ends
\* with status FAILED, awaiting_input false, error_count one higher than in
\* the state the turn's Executor was entered with, and no result stored
\* under the phase.
C6_BusinessFailed ==
  (TurnEnded /\ h.last_outcome = "failed")
  => /\ st.status = FAILED
     /\ st.awaiting_input = FALSE
     /\ st.error_count = h.entry_error_count + 1
     /\ st.results[h.last_phase] = NoResult
     /\ (pc = "idle" => ret = [kind |-> "state", state |-> st])
     /\ (h.fresh /\ ~h.engaged /\ h.exec = 1 => st.error_count = 1)

C6_Witness ==
  /\ TurnEnded
  /\ pc = "idle"
  /\ h.engaged
  /\ h.last_outcome = "failed"
  /\ ret.state.error_count = 1
  /\ ret.state.status = FAILED

\* C7: when all required fields are present but validation fails, the
\* Executor does not call the business function and the turn ends on the
\* same phase: current_phase is that phase, status COLLECTING_PARAMS,
\* awaiting_input true, the validation-failed flag set, no result stored.
C7_ValidationFailureStaysOnPhase ==
  (/\ TurnEnded
   /\ h.last_outcome \notin {"short_circuit", "escaped"}
   /\ get_missing_parameters(business_map(st, h.last_phase), h.last_phase) = {}
   /\ ~validation_succeeds(business_map(st, h.last_phase), h.last_phase))
  => /\ h.last_outcome = "validation_failed"
     /\ ~h.last_business
     /\ st.current_phase = h.last_phase
     /\ st.status = COLLECTING_PARAMS
     /\ st.awaiting_input = TRUE
     /\ st.params[h.last_phase][VALIDATION_FAILED] = "True"
     /\ st.results[h.last_phase] = NoResult
     /\ (pc = "idle" => ret = [kind |-> "state", state |-> st])

C7_Witness ==
  /\ TurnEnded
  /\ pc = "idle"
  /\ h.last_outcome = "validation_failed"
  /\ h.last_phase = REP
  /\ st.params[REP]["user_name"] = "#42"
  /\ st.current_phase = REP

\* C8: any exception raised by the business function is caught inside the
\* Executor: the turn ends with status FAILED, awaiting_input false,
\* error_count incremented by one and no result stored, and nothing
\* propagates to the caller.
C8_BusinessExceptionIsFailure ==
  (TurnEnded /\ h.last_outcome \in {"raised", "business_validation_error"})
  => /\ st.status = FAILED
     /\ st.awaiting_input = FALSE
     /\ st.error_count = h.entry_error_count + 1
     /\ st.results[h.last_phase] = NoResult
     /\ (pc = "idle" => ret.kind = "state")

\* C9: one extraction call invokes the schema-constrained capability at
\* most parameter_extraction_retries times, makes no attempt after the first
\* success, and invokes the free-text fallback only after all those
\* attempts have failed, and then exactly once.
C9_RetryThenFallback ==
  /\ ex.structured_calls <= parameter_extraction_retries
  /\ ex.fallback_calls <= 1
  /\ pc = "extract" => ~ex.succeeded /\ ex.fallback_calls = 0
                       /\ ex.structured_calls = ex.attempt
  /\ pc = "fallback" => /\ ~ex.succeeded
                        /\ ex.fallback_calls = 0
                        /\ ex.structured_calls = parameter_extraction_retries
  /\ (pc = "extracted" /\ ex.succeeded) =>
        /\ ex.fallback_calls = 0
        /\ ex.structured_calls = ex.attempt + 1
  /\ (pc = "extracted" /\ ~ex.succeeded) =>
        /\ ex.fallback_calls = 1
        /\ ex.structured_calls = parameter_extraction_retries

C9_Witness ==
  /\ pc = "extracted"
  /\ ~ex.succeeded
  /\ ex.fallback_calls = 1
  /\ ex.structured_calls = parameter_extraction_retries
  /\ ex.value["user_name"] = "#42"

\* C10: when every schema-constrained attempt fails and the free-text
\* fallback also fails, the extractor raises ParameterExtractionError
\* instead of returning an empty map.
C10_BrokenPipelineRaises ==
  (pc = "extracted" /\ ex.fallback_calls = 1 /\ ex.fallback_failed)
  => ex.outcome = "raised"

\* the input run_workflow(msg, t) hands to the graph: every channel is
\* overwritten, the message is appended to the thread's persisted log
run_workflow_input(t, msg) ==
  [initial_state(msg) EXCEPT
     !.messages = (IF t \in saved THEN store[t].messages ELSE <<>>) \o @]

\* a call has just handed its input to the graph
GraphEntered == pc = "supervisor" /\ frame.iteration = 0 /\ h.hops = 0

\* an engaged add_user_input is between its start and its Executor call
EngagedInProgress == pc \in {"extract", "fallback", "extracted"} /\ ex.ctx = "add_user_input"

\* C11: add_user_input on a thread id with no persisted state, or whose
\* persisted state has no current_phase, behaves as run_workflow(message,
\* thread_id): the graph is entered with run_workflow's input, the message is
\* routed by the Router and a fresh turn is run; add_user_input engages a
\* phase only when the thread has persisted state with a current_phase.
C11_DegradesToRunWorkflow ==
  /\ (GraphEntered /\ frame.origin = "add_user_input") =>
        /\ ~h.engaged
        /\ frame.thread \notin saved \/ store[frame.thread].current_phase = NONE
        /\ st = run_workflow_input(frame.thread, frame.msg)
  /\ EngagedInProgress =>
        /\ h.engaged
        /\ frame.thread \in saved
        /\ store[frame.thread].current_phase # NONE
  /\ (Returned /\ frame.origin = "add_user_input" /\ ~h.engaged) =>
        /\ ret.kind = "state"
        /\ h.hops >= 1
        /\ frame.msg \notin BlankMessages => h.classify >= 1 /\ h.exec >= 1
        /\ ret.state.iteration_count = 0

C11_Witness ==
  /\ Returned
  /\ frame.origin = "add_user_input"
  /\ ~h.engaged
  /\ ~h.fresh
  /\ h.classify = 1
  /\ Len(ret.state.messages) = 4
  /\ ret.state.messages[1] = HumanMessage("hello")
  /\ ret.state.messages[2] = AIMessage("success", {})
  /\ ret.state.messages[3] = HumanMessage("hello")

\* C12: add_user_input on a session that has a current_phase never invokes
\* the classification capability, runs extraction and the Executor only for
\* that current_phase, and leaves the parameter maps of all other phases
\* unchanged.
C12_EngagedPhaseOnly ==
  /\ EngagedInProgress =>
        /\ h.classify = 0
        /\ h.exec = 0
        /\ ex.phase = store[frame.thread].current_phase
        /\ frame.node = store[frame.thread].current_phase
        /\ \A q \in PhaseSet \ {frame.node} :
              /\ st.params[q] = store[frame.thread].params[q]
              /\ q \in st.pkeys <=> q \in store[frame.thread].pkeys
  /\ [][(EngagedInProgress /\ pc' = "idle") =>
          /\ h'.classify = 0
          /\ h'.exec = 1
          /\ h'.last_phase = store[frame.thread].current_phase
          /\ \A q \in PhaseSet \ {store[frame.thread].current_phase} :
                /\ store'[frame.thread].params[q] = store[frame.thread].params[q]
                /\ q \in store'[frame.thread].pkeys <=> q \in store[frame.thread].pkeys
                /\ ret'.kind = "state" =>
                     /\ ret'.state.params[q] = store[frame.thread].params[q]
                     /\ q \in ret'.state.pkeys <=> q \in store[frame.thread].pkeys]_vars

C12_Witness ==
  /\ EngagedReturn
  /\ frame.node = REP
  /\ h.classify = 0
  /\ h.exec = 1
  /\ h.new_params["user_name"] = "Alice"
  /\ ret.state.params[REP]["user_name"] = "Alice"
  /\ ret.state.pkeys = {REP}

\* C13: the message log is append-only across turns: the state returned by
\* add_user_input on an engaged session has a message log made of every
\* entry of the prior log in order, followed by the new user message,
\* followed by the Executor's reply.
C13_AppendOnlyLog ==
  [][(EngagedInProgress /\ pc' = "idle" /\ ret'.kind = "state") =>
       LET prior == store[frame.thread].messages
           log == ret'.state.messages
       IN /\ Len(log) = Len(prior) + 2
          /\ SubSeq(log, 1, Len(prior)) = prior
          /\ log[Len(prior) + 1] = HumanMessage(frame.msg)
          /\ log[Len(prior) + 2].role = "ai"]_vars

\* C14: after add_user_input has persisted its final state for a thread id,
\* reading that thread id back from the session store yields a state
\* equivalent to the state add_user_input returned, message log included.
C14_PersistedEqualsReturned ==
  EngagedReturn => store[frame.thread] = ret.state

\* a run_workflow call (or an add_user_input that degraded to one) that has
\* started and not yet been followed by another call
InRunWorkflow == frame.origin # NONE /\ ~h.engaged

\* position of a call within one pass of the graph, counted in steps that
\* are still ahead at most: the remaining extraction attempts, the
\* fallback, the merge, the Executor, the return
StepsAheadInPass ==
  CASE pc = "idle" -> 0
    [] pc = "invoked" -> 1
    [] pc = "phase" -> 2
    [] pc = "extracted" -> 3
    [] pc = "fallback" -> 4
    [] pc = "extract" -> 5 + (parameter_extraction_retries - ex.attempt)
    [] pc = "supervisor" -> 6 + parameter_extraction_retries

\* a bound on the steps a call still takes: the passes the auto-continuation
\* loop may still start, each of at most 7 + retries steps, plus this pass
StepsAhead ==
  (max_iterations - frame.iteration) * (7 + parameter_extraction_retries)
    + StepsAheadInPass

\* a call in progress is at a position from which the code goes on: an
\* extraction attempt is only pending while attempts remain, and a finished
\* extraction belongs to the Router or to add_user_input
CallCanStep ==
  /\ pc \in {"supervisor", "extract", "fallback", "extracted", "phase", "invoked"}
  /\ pc = "extract" => ex.attempt < parameter_extraction_retries
  /\ pc = "extracted" => ex.ctx \in {"supervisor", "add_user_input"}
  /\ pc = "phase" => frame.node \in PhaseSet

\* C15: every run_workflow call terminates (given that each capability call
\* returns): a call in progress can always take a step and every step
\* lowers StepsAhead, which is never negative; and the engine starts at most
\* max_iterations re-invocations without user input per call, none when
\* auto-continuation is disabled, i.e. at most 1 + max_iterations Executor
\* invocations in one run_workflow call.
C15_BoundedAutoContinuation ==
  /\ [](/\ StepsAhead >= 0
        /\ pc # "idle" => CallCanStep
        /\ InRunWorkflow =>
             /\ frame.iteration <= max_iterations
             /\ ~enable_auto_continuation => frame.iteration = 0
             /\ h.hops <= 1 + frame.iteration
             /\ h.exec <= h.hops
             /\ h.exec <= 1 + max_iterations)
  /\ [][pc # "idle" => StepsAhead' < StepsAhead]_vars

C15_Witness ==
  /\ Returned
  /\ frame.origin = "run_workflow"
  /\ enable_auto_continuation
  /\ frame.iteration = max_iterations
  /\ h.exec = 1 + max_iterations
  /\ ret.state.awaiting_input

\* m without the reserved bookkeeping keys
without_reserved(m) == [k \in AllKeys |-> IF k \in ReservedKeys THEN ABSENT ELSE m[k]]

\* the Executor ran its body on the phase's fields in the last turn
ExecutorBodyRan == TurnEnded /\ h.last_outcome \notin {"short_circuit", "escaped"}

\* C16: reserved-prefixed bookkeeping keys in a phase's parameter map are
\* never treated as business fields: the map handed to validation and to
\* the business function holds none of them, no stored result has one, and
\* a required field counts as missing exactly when it is missing from the
\* map without them, in the Executor and in the auto-continuation
\* completeness check.
C16_ReservedKeysAreNotFields ==
  /\ ExecutorBodyRan =>
       /\ h.clean_keys \cap ReservedKeys = {}
       /\ h.clean_keys = Keys(without_reserved(phase_params_of(st, h.last_phase)))
       /\ (h.last_outcome = "prompt") <=>
            get_missing_parameters(without_reserved(phase_params_of(st, h.last_phase)),
                                   h.last_phase) # {}
  /\ \A p \in PhaseSet : Keys(st.results[p].args) \cap ReservedKeys = {}
  /\ pc = "invoked" =>
       (can_auto_continue <=>
          /\ enable_auto_continuation
          /\ st.awaiting_input
          /\ frame.iteration < max_iterations
          /\ ~has_results(st)
          /\ st.current_phase \in st.pkeys
          /\ get_missing_parameters(without_reserved(st.params[st.current_phase]),
                                    st.current_phase) = {})

C16_Witness ==
  /\ ExecutorBodyRan
  /\ pc = "invoked"
  /\ can_auto_continue
  /\ h.last_outcome = "validation_failed"
  /\ st.params[FIN][REQUEST_SENT] = "True"
  /\ st.params[FIN][VALIDATION_FAILED] = "True"
  /\ h.clean_keys = {"product_type", "term_years"}

\* a call has returned (a state, or the error dict of an exception path)
AnyReturn == pc = "idle" /\ ret.kind # NONE

\* C17: in every state returned by run_workflow or add_user_input a result
\* is stored under a phase name only on terminal success: if results has an
\* entry then status=COMPLETED, awaiting_input=false and current_phase is
\* cleared (and the entry is the result of the turn's business call).
C17_ResultsOnlyOnSuccess ==
  (AnyReturn /\ has_results(ret.state)) =>
     /\ ret.state.status = COMPLETED
     /\ ret.state.awaiting_input = FALSE
     /\ ret.state.current_phase = NONE
     /\ h.last_outcome \in {"completed", "unknown_status"}
     /\ \A p \in PhaseSet : ret.state.results[p] # NoResult => p = h.last_phase

C17_Witness ==
  /\ AnyReturn
  /\ has_results(ret.state)
  /\ h.engaged
  /\ ret.state.results[FIN].status = "archived"
  /\ ret.state.results[FIN].args["product_type"] = "isa"
  /\ ret.state.status = COMPLETED

\* C19: run_workflow on a thread id that already has persisted state does
\* not reset that session's params, results, error_count or
\* iteration_count: the graph is entered with the persisted values.
C19_RunWorkflowKeepsSession ==
  (GraphEntered /\ frame.origin = "run_workflow" /\ frame.thread \in saved) =>
     /\ st.pkeys = store[frame.thread].pkeys
     /\ st.params = store[frame.thread].params
     /\ st.results = store[frame.thread].results
     /\ st.error_count = store[frame.thread].error_count
     /\ st.iteration_count = store[frame.thread].iteration_count

\* C20: on the empty-message fast path error_count is incremented by
\* exactly one: run_workflow with an empty or whitespace-only message on a
\* fresh thread returns error_count = 1.
C20_EmptyMessageCountsOnce ==
  (/\ Returned
   /\ frame.origin = "run_workflow"
   /\ h.fresh
   /\ frame.msg \in BlankMessages)
  => ret.state.error_count = 1

\* C18: turns on distinct thread ids are independent.  A call on a thread
\* id starts from that thread's persisted state and its message only, keeps
\* to that thread id until it returns, returns what it persisted under it,
\* and no step of it changes what is persisted under the other thread id:
\* so each thread's persisted and returned state is what it would be if
\* the other thread's calls had never happened.
C18_ThreadsIndependent ==
  /\ [](GraphEntered => st = run_workflow_input(frame.thread, frame.msg))
  /\ [](EngagedInProgress => st = store[frame.thread])
  /\ []((Returned /\ ~h.engaged) => ret.state = store[frame.thread])
  /\ [][pc # "idle" => frame'.thread = frame.thread]_vars
  /\ [][\A u \in ThreadPair :
          u # frame'.thread => /\ store'[u] = store[u]
                               /\ u \in saved' <=> u \in saved]_vars

C18_Witness ==
  /\ EngagedReturn
  /\ frame.thread = "t2"
  /\ ret.state.status = FAILED
  /\ store["t1"].status = COMPLETED
  /\ Len(store["t1"].messages) = 2
  /\ store["t1"].results[REP].args["user_name"] = "Alice"
  /\ store["t2"].params[FIN]["product_type"] = "isa"

\* C21: a single run_workflow or add_user_input call whose Executor
\* validation fails returns error_count exactly one higher than its value
\* at the start of the call (zero for run_workflow on a fresh thread),
\* with auto-continuation enabled as well as disabled.
C21_ValidationFailureCountsOnce ==
  /\ (/\ Returned
      /\ frame.origin = "run_workflow"
      /\ h.fresh
      /\ h.first_outcome = "validation_failed")
     => /\ ret.kind = "state"
        /\ ret.state.error_count = 1
  /\ (EngagedReturn /\ h.first_outcome = "validation_failed")
     => ret.state.error_count = h.entry_error_count + 1

\* the same without auto-continuation, where the count is right
C21_CountsOnceWithoutAutoContinuation ==
  ~enable_auto_continuation => C21_ValidationFailureCountsOnce

\* C22: an auto-continuation step re-invokes the Executor of the session's
\* current phase directly: after the first Executor invocation of a
\* run_workflow call the classification capability is not invoked again,
\* no extraction is run on the synthetic "continue" message, and every
\* re-invocation executes the same phase.
C22_ReinvokesExecutorDirectly ==
  (InRunWorkflow /\ h.exec >= 1) =>
     /\ h.classify <= 1
     /\ pc \notin {"extract", "fallback", "extracted"}
     /\ pc = "phase" => frame.node = h.last_phase

\* C23: when a run_workflow turn ends with a missing-field prompt,
\* auto-continuation performs no re-invocation: the Executor is invoked
\* exactly once in that call and control returns to the caller with
\* awaiting_input true, the engine not waiting for input internally.
C23_PromptEndsTheCall ==
  /\ (InRunWorkflow /\ TurnEnded /\ h.first_outcome = "prompt")
     => /\ h.exec = 1
        /\ frame.iteration = 0
        /\ st.awaiting_input
        /\ pc = "idle" => ret = [kind |-> "state", state |-> st]
  /\ (InRunWorkflow /\ pc = "invoked" /\ h.last_outcome = "prompt")
     => ~can_auto_continue

C23_Witness ==
  /\ Returned
  /\ frame.origin = "run_workflow"
  /\ enable_auto_continuation
  /\ h.first_outcome = "prompt"
  /\ h.first_missing = {"report_type"}
  /\ h.exec = 1
  /\ ret.state.awaiting_input
  /\ ret.state.params[REP]["user_name"] = "Alice"

\* C24: within one run_workflow call the business function of a phase is
\* invoked at most once, including when the first Executor invocation ends
\* in an 'incomplete' result or a validation failure and auto-continuation
\* is enabled.
C24_BusinessAtMostOncePerCall ==
  InRunWorkflow => h.business <= 1

\* the same without auto-continuation, where one call makes one invocation
C24_AtMostOnceWithoutAutoContinuation ==
  ~enable_auto_continuation => C24_BusinessAtMostOncePerCall

\* C25: when required fields are missing and the phase's request-sent flag
\* is not set, the Executor runs one more best-effort extraction pass over
\* the most recent user message and recomputes the missing set before it
\* emits a prompt: a call whose Executor prompted on a map without the flag
\* has called the extraction capability.
C25_ExtractsBeforePrompting ==
  (/\ TurnEnded
   /\ h.last_outcome = "prompt"
   /\ h.entry_request_sent = ABSENT)
  => (h.structured \/ h.fallback)

\* the extractor has returned the map ex.value for phase ex.phase
ExtractorReturned == pc = "extracted" /\ ex.outcome = "returned"

\* C26: every key of a map returned by the extractor, including a map
\* obtained through the free-text fallback, is a field of the target
\* phase's schema: keys outside the schema (reserved-prefixed bookkeeping
\* names included) are dropped and never merged into the phase's map.
C26_ExtractedKeysInSchema ==
  /\ ExtractorReturned => Keys(ex.value) \subseteq model_fields(ex.phase)
  /\ \A p \in PhaseSet :
        Keys(strip_internal_flags(phase_params_of(st, p))) \subseteq model_fields(p)

\* the schema-constrained strategy alone does keep to the schema
C26_StructuredKeysInSchema ==
  (ExtractorReturned /\ ex.fallback_calls = 0) =>
     Keys(ex.value) \subseteq model_fields(ex.phase)

\* v, trimmed and lower-cased, is one of the null-like strings
null_like(v) == isinstance_str(v) /\ lower(strip(v)) \in {"none", "null", ""}

\* C27: no map returned by the extractor, through either strategy, contains
\* a value that equals "none", "null" or the empty string after trimming
\* whitespace and ignoring case; such values are dropped and never stored
\* in a parameter map.
C27_NoNullLikeValues ==
  /\ ExtractorReturned =>
       \A k \in AllKeys : ex.value[k] # ABSENT => ~null_like(ex.value[k])
  /\ \A p \in PhaseSet : \A k \in AllKeys \ ReservedKeys :
        phase_params_of(st, p)[k] # ABSENT => ~null_like(phase_params_of(st, p)[k])

\* values that are null-like without trimming are dropped
C27_NoUnpaddedNullLikeValues ==
  ExtractorReturned =>
    \A k \in AllKeys : ex.value[k] # ABSENT =>
       ~(isinstance_str(ex.value[k]) /\ lower(ex.value[k]) \in {"none", "null", ""})

\* the state the graph holds after the Executor of p has run on s
after_executor(s, p, b) == graph_apply(s, enhanced_phase_node(s, p, b, FALSE))

\* the Executor of p, invoked on s, on the outcome and on the outcome of
\* that again, gives the same missing set and prompt, and changes nothing
\* in the phase's map but the request-sent flag, which is set and stays set
RepeatsItself(s, p, b) ==
  LET r1 == enhanced_phase_node(s, p, b, FALSE)
      s1 == after_executor(s, p, b)
      r2 == enhanced_phase_node(s1, p, b, FALSE)
      s2 == after_executor(s1, p, b)
      r3 == enhanced_phase_node(s2, p, b, FALSE)
      s3 == after_executor(s2, p, b)
  IN /\ r1.outcome = "prompt" /\ r2.outcome = "prompt" /\ r3.outcome = "prompt"
     /\ get_missing_parameters(business_map(s1, p), p)
          = get_missing_parameters(business_map(s, p), p)
     /\ get_missing_parameters(business_map(s2, p), p)
          = get_missing_parameters(business_map(s, p), p)
     /\ r2.v.messages = r1.v.messages
     /\ r3.v.messages = r1.v.messages
     /\ s1.params[p] = [phase_params_of(s, p) EXCEPT ![REQUEST_SENT] = "True"]
     /\ s2.params[p] = s1.params[p]
     /\ s3.params[p] = s1.params[p]
     /\ r1.mut.params[p] = s1.params[p]
     /\ r2.mut.params[p] = s1.params[p]

\* an engaged add_user_input whose message added nothing to the business
\* fields of the phase, which are incomplete
UnchangedIncompleteInput ==
  /\ EngagedReturn
  /\ h.last_outcome = "prompt"
  /\ business_map(ret.state, frame.node) = strip_internal_flags(h.pre_params)

\* C28: idempotence of the Executor.  Invoking a phase's Executor repeatedly
\* on a state whose business fields are unchanged and incomplete yields the
\* same missing-field set and the same prompt every time, and the only
\* change to the phase's parameter map is that the request-sent flag
\* becomes set on the first invocation and stays set.
C28_ExecutorIdempotent ==
  /\ \A p \in PhaseSet : \A b \in BusinessOutcomes :
        (st.status # FAILED /\ get_missing_parameters(business_map(st, p), p) # {})
        => RepeatsItself(st, p, b)
  /\ UnchangedIncompleteInput =>
        /\ h.first_missing = get_missing_parameters(strip_internal_flags(h.pre_params), frame.node)
        /\ ret.state.messages[Len(ret.state.messages)]
             = AIMessage("request", parameter_request_fields(h.first_missing, frame.node))
        /\ ret.state.params[frame.node] = [h.pre_params EXCEPT ![REQUEST_SENT] = "True"]

C28_Witness ==
  /\ UnchangedIncompleteInput
  /\ frame.node = REP
  /\ h.pre_params[REQUEST_SENT] = "True"
  /\ h.pre_params["user_name"] = "Alice"
  /\ h.first_missing = {"report_type"}
  /\ ret.state.params[REP][REQUEST_SENT] = "True"
  /\ RepeatsItself(st, REP, "completed")

\* the map m has every required field of p: none is absent, empty or unset
has_every_required_field(m, p) ==
  \A f \in get_user_input_fields(p) : ~value_is_missing(m[f])

\* the Executor of p invoked on s neither prompts nor touches the flag
NeverPrompts(s, p, b, e) ==
  LET r == enhanced_phase_node(s, p, b, e)
  IN /\ r.outcome # "prompt"
     /\ "messages" \in r.keys => r.v.messages[1].content # "request"
     /\ r.mut.params[p][REQUEST_SENT] = phase_params_of(s, p)[REQUEST_SENT]
     /\ r.v.params[p][REQUEST_SENT] = phase_params_of(s, p)[REQUEST_SENT]

\* the Executor of p invoked on s validates and, if that succeeds, calls
\* the business function before it returns
ValidatesThenExecutes(s, p, b, e) ==
  LET r == enhanced_phase_node(s, p, b, e)
  IN /\ r.validated
     /\ r.business <=> validation_succeeds(business_map(s, p), p)
     /\ r.outcome = "validation_failed" <=> ~validation_succeeds(business_map(s, p), p)

\* an invocation of the Executor on a map that was complete on entry
InvokedOnCompleteMap == TurnEnded /\ h.exec = 1 /\ h.first_missing = {}

\* thread t is engaged in a phase whose persisted map has every required
\* field, so that the next add_user_input invokes the Executor on it
EngagedOnCompleteMap(t) ==
  /\ pc = "idle"
  /\ ~starts_fresh_workflow(t)
  /\ has_every_required_field(business_map(store[t], engaged_phase(t)), engaged_phase(t))

missing_set(m, p) == {f \in get_user_input_fields(p) : value_is_missing(m[f])}

\* the fields named by the last message of the log
last_message(s) == s.messages[Len(s.messages)]

\* C30: the missing-field prompt names exactly the fields of the missing
\* set: every missing required field is named and no field that is present
\* is named; in particular a map missing exactly one required field yields
\* a prompt naming only that field.
C30_PromptNamesMissingSet ==
  /\ (TurnEnded /\ h.last_outcome = "prompt") =>
        /\ last_message(st).role = "ai"
        /\ last_message(st).content = "request"
        /\ last_message(st).fields = missing_set(business_map(st, h.last_phase), h.last_phase)
        /\ last_message(st).fields # {}
        /\ \A f \in last_message(st).fields : value_is_missing(st.params[h.last_phase][f])
  /\ \A p \in PhaseSet : \A f \in get_user_input_fields(p) :
        (st.status # FAILED /\ missing_set(business_map(st, p), p) = {f}) =>
           enhanced_phase_node(st, p, "completed", FALSE).v.messages
             = <<AIMessage("request", {f})>>

C30_Witness ==
  /\ Returned
  /\ h.last_outcome = "prompt"
  /\ h.last_phase = REP
  /\ ret.state.params[REP]["user_name"] = "Alice"
  /\ ret.state.params[REP]["report_type"] = ABSENT
  /\ last_message(ret.state) = AIMessage("request", {"report_type"})

\* C31: a field flagged computed/excluded in a phase's schema is never in
\* the missing-field set and is never named in a prompt, whatever its value
\* in the parameter map, so its absence never prevents the phase from
\* executing.
C31_ComputedFieldsNeverAsked ==
  /\ \A p \in PhaseSet :
        /\ get_missing_parameters(business_map(st, p), p) \cap get_computed_fields(p) = {}
        /\ \A b \in BusinessOutcomes :
              LET r == enhanced_phase_node(st, p, b, FALSE)
              IN /\ r.outcome = "prompt" =>
                      r.v.messages[1].fields \cap get_computed_fields(p) = {}
                 /\ (/\ st.status # FAILED
                     /\ \A f \in model_fields(p) \ get_computed_fields(p) :
                           ~value_is_missing(business_map(st, p)[f]))
                    => r.outcome # "prompt"
  /\ (TurnEnded /\ h.last_outcome = "prompt") =>
        /\ h.first_missing \cap get_computed_fields(h.last_phase) = {}
        /\ last_message(st).fields \cap get_computed_fields(h.last_phase) = {}

\* the phase executes with its computed field absent
C31_Witness ==
  /\ Returned
  /\ h.last_phase = FIN
  /\ h.last_outcome = "completed"
  /\ ret.state.params[FIN]["term_years"] = ABSENT
  /\ ret.state.params[FIN]["product_type"] = "isa"
  /\ ret.state.results[FIN].args["product_type"] = "isa"

\* thread t is engaged in a phase and its persisted status is FAILED, so
\* that the next add_user_input invokes the Executor on a FAILED state
EngagedAndFailed(t) ==
  /\ pc = "idle"
  /\ ~starts_fresh_workflow(t)
  /\ store[t].status = FAILED

\* the Executor of p invoked on the FAILED state s returns the short-circuit
ShortCircuits(s, p, b, e) ==
  LET r == enhanced_phase_node(s, p, b, e)
  IN /\ r.outcome = "short_circuit"
     /\ r.keys = {"messages", "awaiting_input", "status", "error_count"}
     /\ r.v.status = FAILED
     /\ r.v.awaiting_input = FALSE
     /\ r.v.messages = <<AIMessage(IF s.error_message = NONE THEN "Error: Workflow failed"
                                   ELSE s.error_message, {})>>
     /\ r.v.error_count = s.error_count
     /\ r.mut.params = s.params
     /\ r.mut.pkeys = s.pkeys
     /\ ~r.validated
     /\ ~r.business

\* C32: when the Executor is invoked on a state whose status is already
\* FAILED, it short-circuits: it returns status FAILED with awaiting_input
\* false and the stored error message, leaves error_count and the phase's
\* parameter map unchanged, and does not compute missing fields, validate
\* or invoke the business function.
C32_FailedStateShortCircuits ==
  /\ \A t \in Threads : \A b \in BusinessOutcomes : \A e \in BOOLEAN :
        EngagedAndFailed(t) => ShortCircuits(store[t], engaged_phase(t), b, e)
  /\ (TurnEnded /\ h.entry_status = FAILED) =>
        /\ h.last_outcome = "short_circuit"
        /\ ret.kind = "state"

\* where the message can be built the Executor does short-circuit
C32_ShortCircuitsWhenMessageBuilt ==
  \A t \in Threads : \A b \in BusinessOutcomes :
     EngagedAndFailed(t) => ShortCircuits(store[t], engaged_phase(t), b, FALSE)

\* the Router's extraction pass has failed: every schema-constrained
\* attempt and the free-text fallback
RouterExtractionFailed ==
  pc = "extracted" /\ ex.ctx = "supervisor" /\ ex.fallback_failed

\* C33: a failure of the Router's opportunistic extraction pass is
\* swallowed: the Router still makes its one hop to the chosen phase's
\* Executor, the turn does not become FAILED because of it, error_count is
\* not incremented, and the only visible effect is that no fields are
\* merged into the phase's parameter map.
C33_RouterExtractionFailureSwallowed ==
  /\ [][RouterExtractionFailed =>
          /\ pc' = "phase"
          /\ frame'.node = frame.node
          /\ frame.node = ex.phase
          /\ st'.params = st.params
          /\ st'.status = st.status
          /\ st'.error_count = st.error_count
          /\ st'.messages = st.messages
          /\ ret' = ret]_vars
  /\ []((TurnEnded /\ InRunWorkflow /\ h.exec = 1 /\ h.extraction_failed) =>
          /\ h.last_outcome = "prompt"
          /\ st.status = COLLECTING_PARAMS
          /\ st.error_count = 0
          /\ business_map(st, h.last_phase) = EmptyMap
          /\ pc = "idle" => ret.kind = "state")

C33_Witness ==
  /\ Returned
  /\ frame.origin = "run_workflow"
  /\ h.extraction_failed
  /\ h.exec = 1
  /\ h.last_phase = REP
  /\ ret.state.status = COLLECTING_PARAMS
  /\ ret.state.error_count = 0
  /\ ret.state.current_phase = REP

\* C34: when the business function returns a result tagged incomplete, the
\* turn ends with current_phase kept on that phase, awaiting_input true,
\* status COLLECTING_PARAMS, error_count unchanged and no result stored.
C34_IncompleteKeepsCollecting ==
  (TurnEnded /\ h.last_outcome = "incomplete") =>
     /\ h.last_business
     /\ st.current_phase = h.last_phase
     /\ st.awaiting_input = TRUE
     /\ st.status = COLLECTING_PARAMS
     /\ st.error_count = h.entry_error_count
     /\ st.results[h.last_phase] = NoResult
     /\ ~has_results(st)
     /\ last_message(st) = AIMessage("incomplete", {})
     /\ pc = "idle" => ret = [kind |-> "state", state |-> st]

C34_Witness ==
  /\ EngagedReturn
  /\ h.last_outcome = "incomplete"
  /\ h.last_phase = FIN
  /\ h.entry_error_count = 1
  /\ ret.state.error_count = 1
  /\ ret.state.current_phase = FIN
  /\ ret.state.params[FIN]["product_type"] = "isa"
  /\ ret.state.status = COLLECTING_PARAMS

\* an engaged add_user_input has returned, with a state or with its error map
EngagedCallDone == pc = "idle" /\ h.engaged /\ h.exec = 1

\* C35: once a turn reached through add_user_input ends with status FAILED
\* because the business function returned 'failed' or raised, current_phase
\* stays set to that phase and every later add_user_input on that thread
\* also returns status FAILED without validating or invoking the business
\* function, whatever fields the new message supplies; the session leaves
\* FAILED only through run_workflow.
C35_FailedSessionStaysFailed ==
  /\ []((EngagedCallDone /\ h.last_outcome \in {"failed", "raised"}) =>
          /\ ret.state.status = FAILED
          /\ ret.state.current_phase = frame.node
          /\ store[frame.thread].status = FAILED
          /\ store[frame.thread].current_phase = frame.node)
  /\ []((EngagedCallDone /\ h.entry_status = FAILED) =>
          /\ ret.state.status = FAILED
          /\ h.validate = 0
          /\ h.business = 0
          /\ h.last_outcome \in {"short_circuit", "escaped"}
          /\ store[frame.thread].status = FAILED
          /\ store[frame.thread].current_phase = frame.node)
  /\ [][\A t \in Threads :
          (store[t].status = FAILED /\ store'[t].status # FAILED) => ~h.engaged]_vars

\* a second add_user_input on the failed session, with a message that
\* supplies the field, has ended FAILED
C35_Witness ==
  /\ EngagedCallDone
  /\ h.entry_status = FAILED
  /\ h.new_params["product_type"] = "isa"
  /\ h.last_outcome = "short_circuit"
  /\ ret.state.status = FAILED
  /\ store["t1"].current_phase = FIN
  /\ Len(store["t1"].messages) = 5

\* the business fields an engaged add_user_input hands to the Executor:
\* what was collected before, overwritten by what the message supplies
merged_fields == strip_internal_flags(update(h.pre_params, h.new_params))

\* an engaged add_user_input on a session left by a validation failure,
\* whose message replaces the offending value by a valid one
OffendingValueReplaced ==
  /\ EngagedCallDone
  /\ h.entry_status = COLLECTING_PARAMS
  /\ h.pre_params[VALIDATION_FAILED] = "True"
  /\ h.pre_params[LAST_ERROR] # ABSENT
  /\ ~validation_succeeds(strip_internal_flags(h.pre_params), frame.node)
  /\ complete_and_valid(merged_fields, frame.node)

\* C36: validation failure is recoverable within the phase: after a turn
\* that ended in validation failure, an add_user_input whose extraction
\* replaces the offending value with a valid one leads in that same call to
\* the business function being invoked; the validation-failed and
\* last-error flags left in the parameter map do not block execution.
C36_ValidationFailureRecoverable ==
  OffendingValueReplaced =>
     /\ h.validate = 1
     /\ h.business = 1
     /\ h.last_outcome \notin {"prompt", "validation_failed", "short_circuit", "escaped"}
     /\ h.clean_keys \cap ReservedKeys = {}
     /\ ret.kind = "state"
     /\ ret.state.params[frame.node][VALIDATION_FAILED] = "True"
     /\ business_map(ret.state, frame.node) = merged_fields

C36_Witness ==
  /\ OffendingValueReplaced
  /\ frame.node = FIN
  /\ h.pre_params["product_type"] = "crypto"
  /\ h.new_params["product_type"] = "isa"
  /\ h.last_outcome = "completed"
  /\ ret.state.status = COMPLETED
  /\ ret.state.results[FIN].args["product_type"] = "isa"
  /\ ret.state.params[FIN][LAST_ERROR] = "verr"

\* C37: in every state returned by run_workflow or add_user_input,
\* awaiting_input is true if and only if status is COLLECTING_PARAMS, and
\* whenever awaiting_input is true current_phase names a registered phase.
C37_AwaitingIffCollecting ==
  Returned =>
     /\ ret.state.awaiting_input <=> ret.state.status = COLLECTING_PARAMS
     /\ ret.state.awaiting_input => ret.state.current_phase \in PhaseSet

C37_Witness ==
  /\ EngagedReturn
  /\ ret.state.awaiting_input
  /\ ret.state.status = COLLECTING_PARAMS
  /\ ret.state.current_phase = REP
  /\ h.last_outcome = "validation_failed"
  /\ h.pre_params[REQUEST_SENT] = "True"

(***************************************************************************)
(* C38: run_workflow and add_user_input never raise to their caller: an    *)
(* exception inside the call (classification, Executor) produces a         *)
(* returned map with status FAILED that carries the error, and an          *)
(* add_user_input call that ends so persists nothing.                      *)
(***************************************************************************)
\* the last classification of the call in progress raised (line 373)
ClassificationRaised == h.classify >= 1 /\ h.classify_raised

\* the Executor's own failure handling let the exception through to the
\* handler of run_workflow (702-708) or add_user_input (771-777)
ExecutorRaised == h.last_outcome = "escaped"

C38_ExceptionsReturnFailed ==
  /\ [](Returned /\ (ClassificationRaised \/ ExecutorRaised) =>
          /\ ret.state.status = FAILED
          /\ ~ret.state.awaiting_input)
  /\ [][pc' = "idle" /\ h'.engaged /\ h'.last_outcome = "escaped" => store' = store]_vars

(***************************************************************************)
(* C39: when the classification capability raises on a non-empty message   *)
(* the Router does not take the critical-error fast path: it writes        *)
(* nothing and ends nothing, it hops to the Executor of the first          *)
(* registered phase, and the turn runs no extraction pass.                 *)
(***************************************************************************)
\* the step in which a classification call raises
ClassificationRaises ==
  /\ pc = "supervisor"
  /\ h'.classify = h.classify + 1
  /\ h'.classify_raised

C39_ClassifierFailureGoesToFirstPhase ==
  /\ [][ClassificationRaises =>
          /\ ~is_blank(latest_human(st.messages))
          /\ pc' = "phase"
          /\ frame'.node = phase_names[1]
          /\ ex' = NoExtraction
          /\ st' = st
          /\ store' = store
          /\ ret' = ret]_vars
  /\ []((TurnEnded /\ frame.origin # NONE /\ ClassificationRaised) =>
          /\ h.last_phase = phase_names[1]
          /\ ex = NoExtraction
          /\ st.error_message # EMPTY_MESSAGE_ERROR
          /\ st.supervisor_out = NoDecision)

C39_Witness ==
  /\ Returned
  /\ ClassificationRaised
  /\ h.exec = 1
  /\ h.last_phase = phase_names[1]
  /\ ~h.structured
  /\ ~h.fallback
  /\ ret.state.status = COLLECTING_PARAMS
  /\ ret.state.current_phase = phase_names[1]

(***************************************************************************)
(* C40: the results map of every returned state has at most one entry:     *)
(* storing a phase's result replaces the whole map and a graph run starts  *)
(* from an empty map, so the result of a phase completed earlier on the    *)
(* same thread is not kept.                                                *)
(***************************************************************************)
\* the phases that have an entry in the results map of s
result_keys(s) == {p \in PhaseSet : s.results[p] # NoResult}

\* the session's log shows a phase that completed before the call in progress
CompletedEarlier ==
  \E i \in 1..Len(ret.state.messages) - 2 :
      ret.state.messages[i] = AIMessage("success", {})

C40_ResultsHoldOneEntry ==
  /\ [](AnyReturn => Cardinality(result_keys(ret.state)) <= 1)
  /\ [][pc = "idle" /\ pc' = "supervisor" => result_keys(st') = {}]_vars
  /\ [][\A t \in DOMAIN store :
          store'[t] # store[t] =>
             /\ result_keys(store'[t]) \subseteq {h'.last_phase}
             /\ result_keys(store'[t]) # {} =>
                   h'.last_outcome \in {"completed", "unknown_status"}]_vars

C40_Witness ==
  /\ AnyReturn
  /\ CompletedEarlier
  /\ h.last_phase = REP
  /\ h.last_outcome = "completed"
  /\ result_keys(ret.state) = {REP}
  /\ ret.state.results[FIN] = NoResult

====
